---- MODULE Spec2Model ----
(***************************************************************************)
(* Route optimisation core of the tourist route planner:                   *)
(* haversineDistance, getRealRoute, fastHeuristicOrdering,                 *)
(* fetchRealRoutesInParallel and heuristicOptimizedRoute.                  *)
(*                                                                         *)
(* Conventions.  JavaScript arrays are 0-based; they are kept as TLA+      *)
(* sequences and read with At(arr, i).  Place indices, order entries and   *)
(* segment endpoints are the 0-based numbers the code uses.  Distances are *)
(* whole kilometres, durations whole seconds.  All coordinates lie on one  *)
(* meridian (same lng), where the haversine formula reduces to R * |dLat|. *)
(* null is Null in object slots and NullNum in numeric slots.              *)
(*                                                                         *)
(* The variables lookup, bfs, dfs and ui hold the locals of one call of    *)
(* getRealRoute, bfsReachability, dfsRouteExploration and generateRoute;   *)
(* each has a specification of its own (SpecLookup, SpecBfs, SpecDfs,      *)
(* SpecEntry) and is Off in the others.  seq holds the locals of the       *)
(* sequential optimizer heuristicNearestNeighbor of docs/algorithms.js     *)
(* (SpecOptimizers); in SpecPage ui holds the state of the page.           *)
(***************************************************************************)
EXTENDS Integers, Sequences, FiniteSets, TLC

VARIABLES places, startPoint, threshold, profile,
          pc, optimizedOrder, routePromises, fetchCount, outOfOrder, result,
          lookup, bfs, dfs, ui, seq

vars == <<places, startPoint, threshold, profile,
          pc, optimizedOrder, routePromises, fetchCount, outOfOrder, result,
          lookup, bfs, dfs, ui, seq>>

(* ---------------------------- bounds ----------------------------------- *)
MaxPlaces == 3
MaxLat == 2
\* the most places selected in the page when a route is requested
MaxSelected == 2
\* the most generateRoute calls in flight, and deferred renders pending
MaxInFlight == 2
\* the places a city of the page offers
PlacesPerCity == 2

(* ---------------------------- values ----------------------------------- *)
Null == [null |-> TRUE]
NullNum == -1
FromStart == -2
Infinity == 1000000000
R == 6371
MicroPi == 3141593

Coordinates == {[lat |-> la, lng |-> 0] : la \in 0..MaxLat}
Place(c) == [coordinates |-> c]
RECURSIVE PlaceLists(_)
PlaceLists(n) ==
    IF n = 0 THEN {<<>>}
    ELSE LET shorter == PlaceLists(n - 1)
         IN shorter \cup {Append(ps, Place(c)) :
                            ps \in {q \in shorter : Len(q) = n - 1}, c \in Coordinates}

\* the threshold the application passes, and the default of the parameter
DISTANCE_THRESHOLD_KM == 50
\* the profile of the request (the default of the parameter)
Profiles == {"driving"}
\* road distances the provider may report, in metres
RoadMetres == {50000, 250000}

\* a function that is not being called in the specification at hand
Off == [pc |-> "off"]

At(arr, i) == arr[i + 1]
Abs(x) == IF x < 0 THEN -x ELSE x

(* ------------------------- haversineDistance --------------------------- *)
\* degrees * (Math.PI / 180), in micro-radians, truncated toward zero
toRadians(degrees) ==
    IF degrees < 0 THEN -(((-degrees) * MicroPi) \div 180)
    ELSE (degrees * MicroPi) \div 180

\* On a meridian dLng = 0, so a = sin^2(dLat/2) and
\* c = 2*atan2(sqrt(a), sqrt(1-a)) = |dLat|; the result is R * c in km.
haversineDistance(point1, point2) ==
    LET dLat == toRadians(point2.lat - point1.lat)
        c == Abs(dLat)
    IN (R * c) \div 1000000

(* ------------------------- fastHeuristicOrdering ----------------------- *)
\* "if (dist < minDist)" of both nearest scans
CloserOrEqual(dist, minDist) == dist <= minDist
Closer(dist, minDist) == dist < minDist

\* one forEach scan over cands (in iteration order) keeping the running
\* minimum; returns the final nearestIdx
RECURSIVE ScanNearest(_, _, _, _, _)
ScanNearest(ps, from, cands, minDist, nearestIdx) ==
    IF cands = <<>> THEN nearestIdx
    ELSE LET idx == Head(cands)
             dist == haversineDistance(from, At(ps, idx).coordinates)
         IN IF Closer(dist, minDist)
            THEN ScanNearest(ps, from, Tail(cands), dist, idx)
            ELSE ScanNearest(ps, from, Tail(cands), minDist, nearestIdx)

\* new Set(places.map((_, idx) => idx)): indices in insertion order
AllIndices(ps) == [i \in 1..Len(ps) |-> i - 1]
\* Set.delete keeps the insertion order of the remaining elements
SetDelete(set, x) == SelectSeq(set, LAMBDA e : e # x)

\* the while (unvisited.size > 0) loop
RECURSIVE VisitLoopBreakBeforePush(_, _, _, _, _)
VisitLoopBreakBeforePush(ps, unvisited, order, path, currentIdx) ==
    LET unvisited2 == SetDelete(unvisited, currentIdx)
    IN IF Len(unvisited2) = 0
       THEN [order |-> order, path |-> path]
       ELSE VisitLoopBreakBeforePush(ps, unvisited2, Append(order, currentIdx),
                      Append(path, At(ps, currentIdx).coordinates),
                      ScanNearest(ps, At(ps, currentIdx).coordinates,
                                  unvisited2, Infinity, NullNum))
RECURSIVE VisitLoop(_, _, _, _, _)
VisitLoop(ps, unvisited, order, path, currentIdx) ==
    LET order2 == Append(order, currentIdx)
        path2 == Append(path, At(ps, currentIdx).coordinates)
        unvisited2 == SetDelete(unvisited, currentIdx)
    IN IF Len(unvisited2) = 0
       THEN [order |-> order2, path |-> path2]
       ELSE VisitLoop(ps, unvisited2, order2, path2,
                      ScanNearest(ps, At(ps, currentIdx).coordinates,
                                  unvisited2, Infinity, NullNum))

\* currentIdx chosen before the loop: nearest place to the start point, else 0
InitialIdxZero(ps, start) == 0
InitialIdx(ps, start) ==
    IF start # Null
    THEN ScanNearest(ps, start, AllIndices(ps), Infinity, 0)
    ELSE 0

\* startIndex = nearestIdx with a start point, startIndex = 0 without
StartIndexOnlyWithStart(start, currentIdx) ==
    IF start # Null THEN currentIdx ELSE NullNum
StartIndexOf(start, currentIdx) ==
    IF start # Null THEN currentIdx ELSE 0

fastHeuristicOrdering(ps, start) ==
    IF Len(ps) = 0 THEN [order |-> <<>>, path |-> <<>>, startIndex |-> NullNum]
    ELSE IF Len(ps) = 1
    THEN [order |-> <<0>>, path |-> <<At(ps, 0).coordinates>>, startIndex |-> 0]
    ELSE LET currentIdx == InitialIdx(ps, start)
             path0 == IF start # Null THEN <<start>> ELSE <<>>
             loop == VisitLoop(ps, AllIndices(ps), <<>>, path0, currentIdx)
         IN [order |-> loop.order, path |-> loop.path,
             startIndex |-> StartIndexOf(start, currentIdx)]

(* ------------------------------ getRealRoute --------------------------- *)
\* what a lookup that raised leaves in its promise
Thrown == [thrown |-> TRUE]

\* GeoJSON LineString between two coordinates, as the provider sends it
Line(a, b) == [type |-> "LineString",
               coordinates |-> << <<a.lng, a.lat>>, <<b.lng, b.lat>> >>]

\* the provider's possible answers to one lookup from a to b
ProviderRoutes(a, b) ==
    {[distance |-> m, duration |-> m \div 20, geometry |-> Line(a, b)] :
        m \in RoadMetres}
NoResponse == [transport |-> "error", ok |-> FALSE, code |-> "",
               hasRoutes |-> FALSE, routes |-> <<>>]
Responses(a, b) ==
    {NoResponse,
     [NoResponse EXCEPT !.transport = "ok"],
     [NoResponse EXCEPT !.transport = "ok", !.ok = TRUE, !.code = "NoRoute",
                        !.hasRoutes = TRUE],
     [NoResponse EXCEPT !.transport = "ok", !.ok = TRUE, !.code = "Ok"],
     [NoResponse EXCEPT !.transport = "ok", !.ok = TRUE, !.code = "Ok",
                        !.hasRoutes = TRUE],
     [NoResponse EXCEPT !.transport = "ok", !.ok = TRUE, !.code = "Ok",
                        !.hasRoutes = TRUE,
                        !.routes = <<[distance |-> 50000, duration |-> 2500,
                                      geometry |-> Null]>>]}
    \cup {[NoResponse EXCEPT !.transport = "ok", !.ok = TRUE, !.code = "Ok",
                             !.hasRoutes = TRUE, !.routes = <<r>>] :
            r \in ProviderRoutes(a, b)}

\* the catch block: log and return null
OnErrorRethrow(error) == Thrown
OnError(error) == Null

\* route.geometry.coordinates.map(coord => ({lng: coord[0], lat: coord[1]}))
MapCoordinates(geometry) ==
    [i \in 1..Len(geometry.coordinates) |->
        [lng |-> geometry.coordinates[i][1], lat |-> geometry.coordinates[i][2]]]

getRealRoute(response) ==
    IF response.transport = "error" THEN OnError("fetch")
    ELSE IF ~response.ok THEN OnError("OSRM API error")
    ELSE IF response.code # "Ok" \/ ~response.hasRoutes \/ Len(response.routes) = 0
    THEN OnError("No route found")
    ELSE LET route == response.routes[1]
         IN IF route.geometry = Null THEN OnError("TypeError")
            ELSE [distance |-> route.distance \div 1000,
                  duration |-> route.duration,
                  geometry |-> route.geometry,
                  coordinates |-> MapCoordinates(route.geometry)]

(* ----------------------- fetchRealRoutesInParallel --------------------- *)
\* a lookup just issued: the promise of getRealRoute(a, b).then(...)
Pending(from, to, a, b) ==
    [from |-> from, to |-> to, a |-> a, b |-> b, state |-> "pending", value |-> Null]

\* if (startPoint && order.length > 0): the start-to-first lookup
StartLegNeedsTwo(ps, order, start) ==
    IF start # Null /\ Len(order) > 1
    THEN <<Pending(FromStart, order[1], start, At(ps, order[1]).coordinates)>>
    ELSE <<>>
StartLeg(ps, order, start) ==
    IF start # Null /\ Len(order) > 0
    THEN <<Pending(FromStart, order[1], start, At(ps, order[1]).coordinates)>>
    ELSE <<>>

\* for (i = 0; i < order.length - 1; i++): one lookup per consecutive pair
PairLegs(ps, order) ==
    [i \in 1..(Len(order) - 1) |->
        Pending(order[i], order[i + 1],
                At(ps, order[i]).coordinates, At(ps, order[i + 1]).coordinates)]

\* .then(route => ({from, to, route})), or the rejection of the promise
Settle(promise, route) ==
    IF route = Thrown THEN [promise EXCEPT !.state = "rejected"]
    ELSE [promise EXCEPT !.state = "fulfilled",
                         !.value = [from |-> promise.from, to |-> promise.to,
                                    route |-> route]]

\* fromCoords of the fallback branch
FromCoordsIgnoringStart(res, ps, start) == At(ps, res.to).coordinates
FromCoords(res, ps, start) ==
    IF res.from = FromStart THEN start ELSE At(ps, res.from).coordinates

SuccessSegment(res) ==
    [from |-> res.from, to |-> res.to,
     distance |-> res.route.distance, duration |-> res.route.duration,
     geometry |-> res.route.geometry, coordinates |-> res.route.coordinates]

FallbackSegment(res, ps, start) ==
    LET fromCoords == FromCoords(res, ps, start)
        toCoords == At(ps, res.to).coordinates
        dist == haversineDistance(fromCoords, toCoords)
    IN [from |-> res.from, to |-> res.to,
        distance |-> dist, duration |-> NullNum,
        geometry |-> Null, coordinates |-> <<fromCoords, toCoords>>]

\* totalDistance += route.distance; totalDuration += route.duration
SuccessTotalsNoDuration(acc, seg) ==
    [acc EXCEPT !.totalDistance = @ + seg.distance]
SuccessTotals(acc, seg) ==
    [acc EXCEPT !.totalDistance = @ + seg.distance,
                !.totalDuration = @ + seg.duration]

\* totalDistance += dist
FallbackTotalsNoDistance(acc, seg) == acc
FallbackTotals(acc, seg) ==
    [acc EXCEPT !.totalDistance = @ + seg.distance]

\* routeResults.forEach(result => ...), from the accumulator acc
RECURSIVE ForEachResult(_, _, _, _)
ForEachResult(results, ps, start, acc) ==
    IF results = <<>> THEN acc
    ELSE LET res == Head(results)
             seg == IF res.route # Null THEN SuccessSegment(res)
                    ELSE FallbackSegment(res, ps, start)
             tot == IF res.route # Null THEN SuccessTotals(acc, seg)
                    ELSE FallbackTotals(acc, seg)
         IN ForEachResult(Tail(results), ps, start,
                [tot EXCEPT !.routeSegments = Append(@, seg)])

\* the part of fetchRealRoutesInParallel after await Promise.all
ProcessSuccessesFirst(results, ps, start) ==
    ForEachResult(SelectSeq(results, LAMBDA r : r.route # Null)
                    \o SelectSeq(results, LAMBDA r : r.route = Null),
                  ps, start,
                  [routeSegments |-> <<>>, totalDistance |-> 0, totalDuration |-> 0])
ProcessResults(results, ps, start) ==
    ForEachResult(results, ps, start,
                  [routeSegments |-> <<>>, totalDistance |-> 0, totalDuration |-> 0])

(* ------------------------ heuristicOptimizedRoute ---------------------- *)
\* segments with distance > threshold, reduced to from/to/distance/duration
FarSegmentsAtLeast(segments, thr) ==
    LET far == SelectSeq(segments, LAMBDA s : s.distance >= thr)
    IN [i \in 1..Len(far) |->
          [from |-> far[i].from, to |-> far[i].to,
           distance |-> far[i].distance, duration |-> far[i].duration]]
FarSegments(segments, thr) ==
    LET far == SelectSeq(segments, LAMBDA s : s.distance > thr)
    IN [i \in 1..Len(far) |->
          [from |-> far[i].from, to |-> far[i].to,
           distance |-> far[i].distance, duration |-> far[i].duration]]

Values(promises) == [i \in 1..Len(promises) |-> promises[i].value]

(* ------------------------------ the system ----------------------------- *)
Init ==
    /\ places \in PlaceLists(MaxPlaces)
    /\ startPoint \in Coordinates \cup {Null}
    /\ threshold = DISTANCE_THRESHOLD_KM
    /\ profile \in Profiles
    /\ pc = "idle"
    /\ optimizedOrder = Null
    /\ routePromises = <<>>
    /\ fetchCount = 0
    /\ outOfOrder = FALSE
    /\ result = Null
    /\ lookup = Off /\ bfs = Off /\ dfs = Off /\ ui = Off /\ seq = Off

\* heuristicOptimizedRoute up to its await: the ordering, then every lookup
\* of fetchRealRoutesInParallel issued, then suspended on Promise.all
CallWithoutAwait ==
    /\ pc = "idle"
    /\ LET ordered == fastHeuristicOrdering(places, startPoint)
           promises == StartLeg(places, ordered.order, startPoint)
                         \o PairLegs(places, ordered.order)
       IN /\ optimizedOrder' = ordered
          /\ routePromises' = promises
          /\ fetchCount' = fetchCount + Len(promises)
          /\ result' = [order |-> ordered.order, path |-> ordered.path,
                        startIndex |-> ordered.startIndex,
                        routeSegments |-> <<>>, totalDistance |-> 0,
                        totalDuration |-> 0, farSegments |-> <<>>,
                        threshold |-> threshold, profile |-> profile]
    /\ pc' = "done"
    /\ UNCHANGED <<places, startPoint, threshold, profile, outOfOrder>>
    /\ UNCHANGED <<lookup, bfs, dfs, ui, seq>>
Call ==
    /\ pc = "idle"
    /\ LET ordered == fastHeuristicOrdering(places, startPoint)
           promises == StartLeg(places, ordered.order, startPoint)
                         \o PairLegs(places, ordered.order)
       IN /\ optimizedOrder' = ordered
          /\ routePromises' = promises
          /\ fetchCount' = fetchCount + Len(promises)
    /\ pc' = "awaiting"
    /\ UNCHANGED <<places, startPoint, threshold, profile, outOfOrder, result>>
    /\ UNCHANGED <<lookup, bfs, dfs, ui, seq>>

\* the provider answers lookup k (or the transport fails): getRealRoute
\* resumes after its await and settles the promise
RespondWithRetry(k) ==
    /\ pc = "awaiting"
    /\ k \in 1..Len(routePromises)
    /\ routePromises[k].state = "pending"
    /\ \E response \in Responses(routePromises[k].a, routePromises[k].b) :
          LET route == getRealRoute(response)
          IN IF route = Null /\ fetchCount < 2 * Len(routePromises)
             THEN /\ fetchCount' = fetchCount + 1
                  /\ routePromises' = routePromises
             ELSE /\ fetchCount' = fetchCount
                  /\ routePromises' =
                        [routePromises EXCEPT ![k] = Settle(@, route)]
    /\ outOfOrder' = (outOfOrder \/ \E j \in 1..(k - 1) :
                                       routePromises[j].state = "pending")
    /\ UNCHANGED <<places, startPoint, threshold, profile, pc, optimizedOrder,
                   result>>
    /\ UNCHANGED <<lookup, bfs, dfs, ui, seq>>
Respond(k) ==
    /\ pc = "awaiting"
    /\ k \in 1..Len(routePromises)
    /\ routePromises[k].state = "pending"
    /\ \E response \in Responses(routePromises[k].a, routePromises[k].b) :
          routePromises' =
              [routePromises EXCEPT ![k] = Settle(@, getRealRoute(response))]
    /\ outOfOrder' = (outOfOrder \/ \E j \in 1..(k - 1) :
                                       routePromises[j].state = "pending")
    /\ UNCHANGED <<places, startPoint, threshold, profile, pc, optimizedOrder,
                   fetchCount, result>>
    /\ UNCHANGED <<lookup, bfs, dfs, ui, seq>>

AllFulfilled == \A k \in 1..Len(routePromises) : routePromises[k].state = "fulfilled"
AnyRejected == \E k \in 1..Len(routePromises) : routePromises[k].state = "rejected"

\* Promise.all settles: on a rejection the call raises; otherwise
\* fetchRealRoutesInParallel builds the segments and totals and
\* heuristicOptimizedRoute adds farSegments and returns
Resume ==
    /\ pc = "awaiting"
    /\ AnyRejected \/ AllFulfilled
    /\ IF AnyRejected
       THEN /\ pc' = "raised"
            /\ result' = result
       ELSE LET routeData == ProcessResults(Values(routePromises), places, startPoint)
            IN /\ pc' = "done"
               /\ result' = [order |-> optimizedOrder.order,
                             path |-> optimizedOrder.path,
                             startIndex |-> optimizedOrder.startIndex,
                             routeSegments |-> routeData.routeSegments,
                             totalDistance |-> routeData.totalDistance,
                             totalDuration |-> routeData.totalDuration,
                             farSegments |-> FarSegments(routeData.routeSegments, threshold),
                             threshold |-> threshold,
                             profile |-> profile]
    /\ UNCHANGED <<places, startPoint, threshold, profile, optimizedOrder,
                   routePromises, fetchCount, outOfOrder>>
    /\ UNCHANGED <<lookup, bfs, dfs, ui, seq>>

Next ==
    \/ Call
    \/ \E k \in 1..(MaxPlaces + 1) : Respond(k)
    \/ Resume

Spec == Init /\ [][Next]_vars

(* -------------------- one call of getRealRoute ------------------------- *)
\* the travel modes of the application and one key it does not know
ModeKeys == {"walk", "bike", "car", "bus"}

getOSRMProfile(modeKey) ==
    CASE modeKey = "walk" -> "foot"
      [] modeKey = "bike" -> "bike"
      [] modeKey = "car" -> "driving"
      [] OTHER -> "driving"

\* heuristicOptimizedRoute is not being called
CoreAtRest ==
    /\ threshold = DISTANCE_THRESHOLD_KM /\ profile = "driving"
    /\ pc = "off" /\ optimizedOrder = Null /\ routePromises = <<>>
    /\ fetchCount = 0 /\ outOfOrder = FALSE /\ result = Null

InitLookup ==
    /\ CoreAtRest
    /\ places = <<>> /\ startPoint = Null
    /\ \E p1 \in Coordinates, p2 \in Coordinates, key \in ModeKeys :
          lookup = [pc |-> "idle", point1 |-> p1, point2 |-> p2,
                    profile |-> getOSRMProfile(key), url |-> Null,
                    response |-> Null, value |-> Null]
    /\ bfs = Off /\ dfs = Off /\ ui = Off /\ seq = Off

\* getRealRoute up to await fetch(url)
GetRealRouteFetch ==
    /\ lookup.pc = "idle"
    /\ lookup' = [lookup EXCEPT
                    !.pc = "fetching",
                    !.url = <<lookup.profile,
                              lookup.point1.lng, lookup.point1.lat,
                              lookup.point2.lng, lookup.point2.lat>>]
    /\ fetchCount' = fetchCount + 1
    /\ UNCHANGED <<places, startPoint, threshold, profile, pc, optimizedOrder,
                   routePromises, outOfOrder, result, bfs, dfs, ui, seq>>

\* the provider answers, or the transport fails: the rest of getRealRoute
GetRealRouteSettle ==
    /\ lookup.pc = "fetching"
    /\ \E response \in Responses(lookup.point1, lookup.point2) :
          LET value == getRealRoute(response)
          IN lookup' = [lookup EXCEPT
                          !.pc = IF value = Thrown THEN "raised" ELSE "returned",
                          !.response = response,
                          !.value = value]
    /\ UNCHANGED <<places, startPoint, threshold, profile, pc, optimizedOrder,
                   routePromises, fetchCount, outOfOrder, result, bfs, dfs, ui, seq>>

NextLookup == GetRealRouteFetch \/ GetRealRouteSettle

SpecLookup == InitLookup /\ [][NextLookup]_vars

(* ------------------------- bfsReachability ----------------------------- *)
\* the default of maxDistance, in km
DefaultMaxDistance == 100

\* route ? route.distance : haversineDistance(a, b)
LookupDistanceZeroOnFailure(route, a, b) ==
    IF route # Null THEN route.distance ELSE 0
LookupDistance(route, a, b) ==
    IF route # Null THEN route.distance ELSE haversineDistance(a, b)

\* if (distFromStart <= maxDistance)
StartCheckAlways(dist, max) == TRUE
StartCheck(dist, max) == dist <= max

\* if (dist <= maxDistance)
HopCheckAlways(dist, max) == TRUE
HopCheck(dist, max) == dist <= max

\* visited.add(idx)
MarkVisitedForgets(visited, i) == visited
MarkVisited(visited, i) == visited \cup {i}

\* queue.push(idx)
EnqueueFront(queue, i) == <<i>> \o queue
Enqueue(queue, i) == Append(queue, i)

\* the next idx >= from with !visited.has(idx) && idx !== currentIdx, or n
NextNeighbour(from, visited, cur, n) ==
    LET open == {i \in from..(n - 1) : i \notin visited /\ i # cur}
    IN IF open = {} THEN n ELSE CHOOSE i \in open : \A j \in open : i <= j

\* what a lookup reported: the road distance of its route, or NullNum
Km(route) == IF route = Null THEN NullNum ELSE route.distance

\* the locals of bfsReachability at entry; dequeued, pushed, checks and
\* hops are the history of the search: the indices taken from and put in
\* the queue, and the lookups made for the start check and between places
BfsLocals ==
    [pc |-> "idle", maxDistance |-> DefaultMaxDistance,
     reachable |-> <<>>, visited |-> {}, queue |-> <<0>>,
     startIndex |-> 0, minDist |-> Infinity, idx |-> 0, currentIdx |-> NullNum,
     dequeued |-> <<>>, pushed |-> <<>>, checks |-> {}, hops |-> {}]

InitBfs ==
    /\ CoreAtRest
    /\ places \in PlaceLists(MaxPlaces)
    /\ startPoint \in Coordinates
    /\ bfs = BfsLocals
    /\ lookup = Off /\ dfs = Off /\ ui = Off /\ seq = Off

\* queue[0] = startIndex; visited.add(startIndex); then the first pass of
\* while (queue.length > 0) up to its lookup: queue.shift()
EnterLoop(b, root) ==
    [b EXCEPT !.startIndex = root,
              !.visited = MarkVisited(b.visited, root),
              !.queue = <<>>, !.currentIdx = root,
              !.pushed = <<root>>, !.dequeued = <<root>>,
              !.pc = IF root < Len(places) THEN "checkStart" ELSE "raised"]

\* the neighbour loop resumed at index from: it suspends at its next
\* lookup, or ends, and then the while loop takes the next place from the
\* queue and suspends at the start check, or ends and the search returns
Advance(b, from) ==
    LET nxt == NextNeighbour(from, b.visited, b.currentIdx, Len(places))
    IN IF nxt < Len(places) THEN [b EXCEPT !.pc = "neighbour", !.idx = nxt]
       ELSE IF Len(b.queue) > 0
       THEN [b EXCEPT !.pc = "checkStart", !.idx = nxt,
                      !.currentIdx = Head(b.queue), !.queue = Tail(b.queue),
                      !.dequeued = Append(b.dequeued, Head(b.queue))]
       ELSE [b EXCEPT !.pc = "done", !.idx = nxt]

\* one more lookup is issued when the search suspends again
Issued(b) == IF b.pc \in {"findStart", "checkStart", "neighbour"} THEN 1 ELSE 0

\* bfsReachability up to its first await; with no places the loop over the
\* places is empty and currentPlace.coordinates raises a TypeError
BfsCall ==
    /\ bfs.pc = "idle"
    /\ bfs' = IF Len(places) > 0 THEN [bfs EXCEPT !.pc = "findStart"]
              ELSE EnterLoop(bfs, 0)
    /\ fetchCount' = fetchCount + Issued(bfs')
    /\ UNCHANGED <<places, startPoint, threshold, profile, pc, optimizedOrder,
                   routePromises, outOfOrder, result, lookup, dfs, ui, seq>>

\* the lookup from the start point to places[idx] returns: keep the nearest
\* place so far, then look up the next place or enter the while loop
BfsFindStart ==
    /\ bfs.pc = "findStart"
    /\ \E response \in Responses(startPoint, At(places, bfs.idx).coordinates) :
          LET route == getRealRoute(response)
              dist == LookupDistance(route, startPoint,
                                     At(places, bfs.idx).coordinates)
              nearer == dist < bfs.minDist
              root == IF nearer THEN bfs.idx ELSE bfs.startIndex
          IN bfs' = IF route = Thrown THEN [bfs EXCEPT !.pc = "raised"]
                    ELSE IF bfs.idx + 1 < Len(places)
                    THEN [bfs EXCEPT !.idx = bfs.idx + 1,
                                     !.startIndex = root,
                                     !.minDist = IF nearer THEN dist ELSE @]
                    ELSE EnterLoop([bfs EXCEPT !.idx = bfs.idx + 1,
                                               !.minDist = IF nearer THEN dist ELSE @],
                                   root)
    /\ fetchCount' = fetchCount + Issued(bfs')
    /\ UNCHANGED <<places, startPoint, threshold, profile, pc, optimizedOrder,
                   routePromises, outOfOrder, result, lookup, dfs, ui, seq>>

\* the lookup from the start point to the current place returns: the
\* place is pushed on reachable if within maxDistance of the start point
BfsCheckStart ==
    /\ bfs.pc = "checkStart"
    /\ \E response \in Responses(startPoint, At(places, bfs.currentIdx).coordinates) :
          LET routeToStart == getRealRoute(response)
              distFromStart == LookupDistance(routeToStart, startPoint,
                                              At(places, bfs.currentIdx).coordinates)
          IN bfs' = IF routeToStart = Thrown THEN [bfs EXCEPT !.pc = "raised"]
                    ELSE Advance(
                           [bfs EXCEPT
                              !.reachable =
                                  IF StartCheck(distFromStart, bfs.maxDistance)
                                  THEN Append(@, bfs.currentIdx) ELSE @,
                              !.checks = @ \cup {[place |-> bfs.currentIdx,
                                                  km |-> Km(routeToStart)]}],
                           0)
    /\ fetchCount' = fetchCount + Issued(bfs')
    /\ UNCHANGED <<places, startPoint, threshold, profile, pc, optimizedOrder,
                   routePromises, outOfOrder, result, lookup, dfs, ui, seq>>

\* the lookup from the current place to places[idx] returns: the place is
\* marked visited and queued if within maxDistance of the current place
BfsNeighbour ==
    /\ bfs.pc = "neighbour"
    /\ \E response \in Responses(At(places, bfs.currentIdx).coordinates,
                                  At(places, bfs.idx).coordinates) :
          LET route == getRealRoute(response)
              dist == LookupDistance(route, At(places, bfs.currentIdx).coordinates,
                                     At(places, bfs.idx).coordinates)
              near == HopCheck(dist, bfs.maxDistance)
          IN bfs' = IF route = Thrown THEN [bfs EXCEPT !.pc = "raised"]
                    ELSE Advance(
                           [bfs EXCEPT
                              !.visited = IF near THEN MarkVisited(@, bfs.idx) ELSE @,
                              !.queue = IF near THEN Enqueue(@, bfs.idx) ELSE @,
                              !.pushed = IF near THEN Append(@, bfs.idx) ELSE @,
                              !.hops = @ \cup {[from |-> bfs.currentIdx,
                                                to |-> bfs.idx,
                                                km |-> Km(route)]}],
                           bfs.idx + 1)
    /\ fetchCount' = fetchCount + Issued(bfs')
    /\ UNCHANGED <<places, startPoint, threshold, profile, pc, optimizedOrder,
                   routePromises, outOfOrder, result, lookup, dfs, ui, seq>>

NextBfs == BfsCall \/ BfsFindStart \/ BfsCheckStart \/ BfsNeighbour

SpecBfs == InitBfs /\ [][NextBfs]_vars

(* ----------------------- dfsRouteExploration --------------------------- *)
\* the default of maxDepth
DefaultMaxDepth == 5

\* the exploration reads places.length only: lists of places at one spot
DfsPlaceLists ==
    {ps \in PlaceLists(MaxPlaces) :
        \A i \in 1..Len(ps) : ps[i].coordinates = [lat |-> 0, lng |-> 0]}

\* if (currentPath.length >= maxDepth || visited.size === places.length)
EarlyReturnLate(currentPath, visited, maxDepth, n) ==
    Len(currentPath) > maxDepth \/ Cardinality(visited) = n
EarlyReturn(currentPath, visited, maxDepth, n) ==
    Len(currentPath) >= maxDepth \/ Cardinality(visited) = n

\* if (paths.length === 0) paths.push(currentPath.slice())
OwnPathAlways(paths, currentPath) == Append(paths, currentPath)
OwnPath(paths, currentPath) ==
    IF Len(paths) = 0 THEN Append(paths, currentPath) ELSE paths

\* visited.delete(startIdx)
UnmarkForgets(visited, i) == visited
Unmark(visited, i) == visited \ {i}

\* currentPath.pop()
Pop(currentPath) == SubSeq(currentPath, 1, Len(currentPath) - 1)

\* the next idx >= from of places.forEach with !visited.has(idx), or n
NextUnvisited(from, visited, n) ==
    LET open == {i \in from..(n - 1) : i \notin visited}
    IN IF open = {} THEN n ELSE CHOOSE i \in open : \A j \in open : i <= j

\* a call that passed the early return: visited.add(startIdx),
\* currentPath.push(startIdx), paths = []; its frame remembers the visited
\* set and the path the call began with
Enter(d, i) ==
    [d EXCEPT !.pc = "running",
              !.visited = d.visited \cup {i},
              !.currentPath = Append(d.currentPath, i),
              !.stack = Append(d.stack,
                               [startIdx |-> i, idx |-> 0, paths |-> <<>>,
                                visitedAtEntry |-> d.visited,
                                pathAtEntry |-> d.currentPath])]

\* a call returns subPaths: to the forEach of its caller, which does
\* paths.push(...subPaths) and moves on, or out of the first call
Deliver(d, subPaths) ==
    IF d.stack = <<>> THEN [d EXCEPT !.pc = "done", !.result = subPaths]
    ELSE [d EXCEPT !.stack[Len(d.stack)].paths = @ \o subPaths,
                   !.stack[Len(d.stack)].idx = @ + 1]

\* the first call, with the default visited set and path
InitDfs ==
    /\ CoreAtRest
    /\ places \in DfsPlaceLists
    /\ startPoint = Null
    /\ \E i \in 0..MaxPlaces, depth \in 0..DefaultMaxDepth :
          /\ i < Len(places) \/ i = 0
          /\ dfs = [pc |-> "idle", startIdx |-> i, maxDepth |-> depth,
                    visited |-> {}, currentPath |-> <<>>, stack |-> <<>>,
                    result |-> Null]
    /\ lookup = Off /\ bfs = Off /\ ui = Off /\ seq = Off

\* dfsRouteExploration(places, startIdx, new Set(), [], maxDepth) is called
DfsCall ==
    /\ dfs.pc = "idle"
    /\ dfs' = IF EarlyReturn(dfs.currentPath, dfs.visited, dfs.maxDepth, Len(places))
              THEN Deliver(dfs, <<dfs.currentPath>>)
              ELSE Enter(dfs, dfs.startIdx)
    /\ UNCHANGED <<places, startPoint, threshold, profile, pc, optimizedOrder,
                   routePromises, fetchCount, outOfOrder, result, lookup, bfs, ui, seq>>

\* the forEach of the running call reaches an unvisited idx and calls
\* dfsRouteExploration(places, idx, visited, currentPath, maxDepth)
DfsVisit ==
    /\ dfs.pc = "running"
    /\ LET top == dfs.stack[Len(dfs.stack)]
           nxt == NextUnvisited(top.idx, dfs.visited, Len(places))
       IN /\ nxt < Len(places)
          /\ LET at == [dfs EXCEPT !.stack[Len(dfs.stack)].idx = nxt]
             IN dfs' = IF EarlyReturn(dfs.currentPath, dfs.visited,
                                      dfs.maxDepth, Len(places))
                       THEN Deliver(at, <<dfs.currentPath>>)
                       ELSE Enter(at, nxt)
    /\ UNCHANGED <<places, startPoint, threshold, profile, pc, optimizedOrder,
                   routePromises, fetchCount, outOfOrder, result, lookup, bfs, ui, seq>>

\* the forEach of the running call is over: paths gets the current path if
\* empty, the call takes back its mark and its path entry and returns
DfsReturn ==
    /\ dfs.pc = "running"
    /\ LET top == dfs.stack[Len(dfs.stack)]
           nxt == NextUnvisited(top.idx, dfs.visited, Len(places))
           paths == OwnPath(top.paths, dfs.currentPath)
       IN /\ nxt >= Len(places)
          /\ dfs' = Deliver([dfs EXCEPT
                                !.visited = Unmark(dfs.visited, top.startIdx),
                                !.currentPath = Pop(dfs.currentPath),
                                !.stack = SubSeq(dfs.stack, 1, Len(dfs.stack) - 1)],
                            paths)
    /\ UNCHANGED <<places, startPoint, threshold, profile, pc, optimizedOrder,
                   routePromises, fetchCount, outOfOrder, result, lookup, bfs, ui, seq>>

NextDfs == DfsCall \/ DfsVisit \/ DfsReturn

SpecDfs == InitDfs /\ [][NextDfs]_vars

(* --------------------------- generateRoute ----------------------------- *)
\* if (selectedPlaces.length < 2)
TooFewPlacesOnlyNone(selectedPlaces) == Len(selectedPlaces) < 1
TooFewPlaces(selectedPlaces) == Len(selectedPlaces) < 2

\* selectedPlaces[0]?.coordinates || (selectedCity ? CITIES[selectedCity].coordinates : null)
UiStartPoint(selectedPlaces, cityCoordinates) ==
    IF Len(selectedPlaces) > 0 THEN At(selectedPlaces, 0).coordinates
    ELSE cityCoordinates

\* the page with its selected places (places), city, map and travel mode;
\* startPoint and profile are the arguments of a caller that calls
\* heuristicOptimizedRoute itself
InitEntry ==
    /\ places \in PlaceLists(MaxSelected)
    /\ startPoint \in Coordinates \cup {Null}
    /\ threshold = DISTANCE_THRESHOLD_KM
    /\ profile \in Profiles
    /\ pc = "idle" /\ optimizedOrder = Null /\ routePromises = <<>>
    /\ fetchCount = 0 /\ outOfOrder = FALSE /\ result = Null
    /\ \E city \in {Null, [lat |-> 0, lng |-> 0]}, loaded \in BOOLEAN,
          key \in ModeKeys :
          ui = [pc |-> "idle", alerts |-> <<>>, cityCoordinates |-> city,
                mapLoaded |-> loaded, currentTravelModeKey |-> key,
                optimizedRoute |-> Null]
    /\ lookup = Off /\ bfs = Off /\ dfs = Off /\ seq = Off

\* generateRoute up to its await, or to the alert it returns after; a
\* request that passes the checks calls heuristicOptimizedRoute, which
\* orders the places and issues every lookup before it suspends
GenerateRoute ==
    /\ ui.pc = "idle" /\ pc = "idle"
    /\ LET start == UiStartPoint(places, ui.cityCoordinates)
           ordered == fastHeuristicOrdering(places, start)
           promises == StartLeg(places, ordered.order, start)
                         \o PairLegs(places, ordered.order)
           reject(message) ==
               /\ ui' = [ui EXCEPT !.pc = "rejected", !.alerts = Append(@, message)]
               /\ UNCHANGED <<startPoint, profile, pc, optimizedOrder,
                              routePromises, fetchCount>>
       IN IF TooFewPlaces(places)
          THEN reject("Please select at least 2 tourist places to generate a route.")
          ELSE IF ~ui.mapLoaded
          THEN reject("Map is not loaded. Please refresh the page.")
          ELSE IF start = Null
          THEN reject("Unable to determine starting point. Please select a city.")
          ELSE /\ ui' = [ui EXCEPT !.pc = "awaiting"]
               /\ startPoint' = start
               /\ profile' = getOSRMProfile(ui.currentTravelModeKey)
               /\ optimizedOrder' = ordered
               /\ routePromises' = promises
               /\ fetchCount' = fetchCount + Len(promises)
               /\ pc' = "awaiting"
    /\ UNCHANGED <<places, threshold, outOfOrder, result, lookup, bfs, dfs, seq>>

\* heuristicOptimizedRoute called by another caller than the page
DirectCall == ui.pc = "idle" /\ Call

\* generateRoute after its await: the route is kept and its rendering
\* scheduled, or an alert reports the failure
GenerateRouteResume ==
    /\ ui.pc = "awaiting" /\ pc \in {"done", "raised"}
    /\ ui' = IF pc = "raised"
             THEN [ui EXCEPT !.pc = "failed",
                             !.alerts = Append(@, "Error generating route: ")]
             ELSE IF Len(result.path) < 2
             THEN [ui EXCEPT !.pc = "failed", !.optimizedRoute = result,
                             !.alerts = Append(@, "Error generating route. Please try again.")]
             ELSE [ui EXCEPT !.pc = "rendering", !.optimizedRoute = result]
    /\ UNCHANGED <<places, startPoint, threshold, profile, pc, optimizedOrder,
                   routePromises, fetchCount, outOfOrder, result, lookup, bfs, dfs, seq>>

NextEntry ==
    \/ GenerateRoute
    \/ DirectCall
    \/ \E k \in 1..MaxSelected : Respond(k)
    \/ Resume
    \/ GenerateRouteResume

SpecEntry == InitEntry /\ [][NextEntry]_vars

(* ------------- heuristicNearestNeighbor (docs/algorithms.js) ----------- *)
\* for (const idx of unvisited): the Set holds 0..n-1 in insertion order and
\* only loses members, so it is iterated in ascending order; the member
\* after `after`, or NullNum at the end
NextInSet(set, after) ==
    LET later == {i \in set : i > after}
    IN IF later = {} THEN NullNum
       ELSE CHOOSE i \in later : \A j \in later : i <= j

\* the locals of heuristicNearestNeighbor after its initialisation
SeqLocals ==
    [pc |-> "idle", unvisited |-> {}, order |-> <<>>, path |-> <<>>,
     routeSegments |-> <<>>, totalDistance |-> 0, totalDuration |-> 0,
     currentIdx |-> NullNum, idx |-> 0,
     minDist |-> Infinity, nearestIdx |-> NullNum, bestRoute |-> Null]

\* if (bestRoute) routeSegments.push(...), totals; else totalDistance += minDist
StoreSegment(s) ==
    IF s.bestRoute # Null
    THEN [s EXCEPT !.routeSegments =
                       Append(@, [from |-> s.currentIdx, to |-> s.nearestIdx,
                                  distance |-> s.bestRoute.distance,
                                  duration |-> s.bestRoute.duration,
                                  geometry |-> s.bestRoute.geometry,
                                  coordinates |-> s.bestRoute.coordinates]),
                   !.totalDistance = @ + s.bestRoute.distance,
                   !.totalDuration = @ + s.bestRoute.duration]
    ELSE [s EXCEPT !.totalDistance = @ + s.minDist]

\* one pass of while (unvisited.size > 0) from its top: the current place
\* joins the order; then the break and the return, or the scan of the
\* unvisited places up to its first lookup
Visit(s, cur) ==
    LET left == s.unvisited \ {cur}
        at == [s EXCEPT !.currentIdx = cur,
                        !.order = Append(@, cur),
                        !.path = Append(@, At(places, cur).coordinates),
                        !.unvisited = left]
    IN IF left = {} THEN [at EXCEPT !.pc = "done"]
       ELSE [at EXCEPT !.pc = "scan", !.nearestIdx = NullNum,
                       !.minDist = Infinity, !.bestRoute = Null,
                       !.idx = NextInSet(left, -1)]

\* one more lookup is issued when the optimizer suspends again
SeqIssuedNone(s) == 0
SeqIssued(s) == IF s.pc \in {"findStart", "scan"} THEN 1 ELSE 0

\* heuristicNearestNeighbor up to its first await, or to its return
SeqCall ==
    /\ seq.pc = "idle"
    /\ seq' =
         IF Len(places) = 0
         THEN [seq EXCEPT !.pc = "done", !.totalDuration = NullNum]
         ELSE IF Len(places) = 1
         THEN [seq EXCEPT !.pc = "done", !.order = <<0>>,
                          !.path = <<At(places, 0).coordinates>>,
                          !.totalDuration = NullNum]
         ELSE LET all == [seq EXCEPT !.unvisited = 0..(Len(places) - 1)]
              IN IF startPoint # Null
                 THEN [all EXCEPT !.pc = "findStart", !.idx = 0,
                                  !.minDist = Infinity, !.nearestIdx = 0]
                 ELSE Visit(all, 0)
    /\ fetchCount' = fetchCount + SeqIssued(seq')
    /\ UNCHANGED <<places, startPoint, threshold, profile, pc, optimizedOrder,
                   routePromises, outOfOrder, result, lookup, bfs, dfs, ui>>

\* the lookup from the start point to places[idx] returns: keep the nearest
\* so far; after the last, path.push(startPoint) and the while loop begins
SeqFindStart ==
    /\ seq.pc = "findStart"
    /\ \E response \in Responses(startPoint, At(places, seq.idx).coordinates) :
          LET route == getRealRoute(response)
              dist == LookupDistance(route, startPoint,
                                     At(places, seq.idx).coordinates)
              kept == IF dist < seq.minDist
                      THEN [seq EXCEPT !.minDist = dist, !.nearestIdx = seq.idx]
                      ELSE seq
          IN seq' = IF route = Thrown THEN [seq EXCEPT !.pc = "raised"]
                    ELSE IF seq.idx + 1 < Len(places)
                    THEN [kept EXCEPT !.idx = seq.idx + 1]
                    ELSE Visit([kept EXCEPT !.path = Append(@, startPoint)],
                               kept.nearestIdx)
    /\ fetchCount' = fetchCount + SeqIssued(seq')
    /\ UNCHANGED <<places, startPoint, threshold, profile, pc, optimizedOrder,
                   routePromises, outOfOrder, result, lookup, bfs, dfs, ui>>

\* the lookup from the current place to places[idx] returns: keep the
\* nearest so far with its route; after the last unvisited place the leg is
\* stored and the nearest place becomes the current one
SeqScan ==
    /\ seq.pc = "scan"
    /\ \E response \in Responses(At(places, seq.currentIdx).coordinates,
                                  At(places, seq.idx).coordinates) :
          LET route == getRealRoute(response)
              dist == LookupDistance(route, At(places, seq.currentIdx).coordinates,
                                     At(places, seq.idx).coordinates)
              kept == IF dist < seq.minDist
                      THEN [seq EXCEPT !.minDist = dist, !.nearestIdx = seq.idx,
                                       !.bestRoute = route]
                      ELSE seq
              next == NextInSet(seq.unvisited, seq.idx)
          IN seq' = IF route = Thrown THEN [seq EXCEPT !.pc = "raised"]
                    ELSE IF next # NullNum THEN [kept EXCEPT !.idx = next]
                    ELSE Visit(StoreSegment(kept), kept.nearestIdx)
    /\ fetchCount' = fetchCount + SeqIssued(seq')
    /\ UNCHANGED <<places, startPoint, threshold, profile, pc, optimizedOrder,
                   routePromises, outOfOrder, result, lookup, bfs, dfs, ui>>

\* one request to one of the two optimizers of the repository
InitOptimizers ==
    /\ places \in PlaceLists(MaxPlaces)
    /\ startPoint \in Coordinates \cup {Null}
    /\ threshold = DISTANCE_THRESHOLD_KM
    /\ profile \in Profiles
    /\ optimizedOrder = Null /\ routePromises = <<>>
    /\ fetchCount = 0 /\ outOfOrder = FALSE /\ result = Null
    /\ \/ pc = "idle" /\ seq = Off
       \/ pc = "off" /\ seq = SeqLocals
    /\ lookup = Off /\ bfs = Off /\ dfs = Off /\ ui = Off

NextOptimizers ==
    \/ Call
    \/ \E k \in 1..(MaxPlaces + 1) : Respond(k)
    \/ Resume
    \/ SeqCall
    \/ SeqFindStart
    \/ SeqScan

SpecOptimizers == InitOptimizers /\ [][NextOptimizers]_vars

(* ------------------------ the page (docs/app.js) ----------------------- *)
\* two of the cities, each with one place per coordinate
Cities == {"bangalore", "mysore"}
\* selectedCity = null: no city selected yet
NoCity == ""
CityPlaces(city) ==
    {[id |-> <<city, la>>, coordinates |-> [lat |-> la, lng |-> 0]] :
        la \in 0..(PlacesPerCity - 1)}
\* the travel mode buttons clicked
ClickedModeKeys == {"car", "walk"}

\* selectedPlaces.find(p => p.id === placeId)
Selected(selectedPlaces, id) ==
    \E k \in 1..Len(selectedPlaces) : selectedPlaces[k].id = id

\* selectedPlaces.filter(p => p.id !== placeId): a new array
Unselect(selectedPlaces, id) == SelectSeq(selectedPlaces, LAMBDA p : p.id # id)

\* what a generateRoute call started now will assign to optimizedRoute when
\* its lookups are done: order and startIndex of the places as selected
\* now, from the first selected place, for the profile of the mode selected
\* now; ordered is the array the order indexes
Request(page) ==
    LET start == UiStartPoint(page.selectedPlaces, Null)
        ordered == fastHeuristicOrdering(page.selectedPlaces, start)
    IN [order |-> ordered.order, path |-> ordered.path,
        startIndex |-> ordered.startIndex,
        profile |-> getOSRMProfile(page.currentTravelModeKey),
        ordered |-> page.selectedPlaces]

\* generateRoute up to its await, with the map loaded: nothing happens with
\* fewer than 2 places but an alert
StartRequest(page) ==
    IF TooFewPlaces(page.selectedPlaces) THEN page
    ELSE [page EXCEPT !.requests = Append(@, Request(page)),
                      !.latest = Request(page)]

\* renderRoute and displayResults read selectedPlaces[placeIdx] for every
\* placeIdx of optimizedRoute.order
Rendered(page) ==
    [order |-> page.optimizedRoute.order,
     ordered |-> page.optimizedRoute.ordered,
     selectedPlaces |-> page.selectedPlaces]

InitPage ==
    /\ CoreAtRest
    /\ places = <<>> /\ startPoint = Null
    /\ ui = [pc |-> "page", selectedCity |-> NoCity, selectedPlaces |-> <<>>,
             currentTravelModeKey |-> "car", optimizedRoute |-> Null,
             requests |-> <<>>, latest |-> Null, timers |-> 0, render |-> Null]
    /\ lookup = Off /\ bfs = Off /\ dfs = Off /\ seq = Off

\* the change handler of the city selector
CityChange(city) ==
    /\ ui.pc = "page" /\ city # ui.selectedCity
    /\ ui' = [ui EXCEPT !.selectedCity = city, !.selectedPlaces = <<>>]
    /\ UNCHANGED <<places, startPoint, threshold, profile, pc, optimizedOrder,
                   routePromises, fetchCount, outOfOrder, result,
                   lookup, bfs, dfs, seq>>

\* handlePlaceSelection(e) for a checkbox of the selected city
HandlePlaceSelection(place) ==
    /\ ui.pc = "page" /\ ui.selectedCity # NoCity
    /\ place \in CityPlaces(ui.selectedCity)
    /\ ui' = IF ~Selected(ui.selectedPlaces, place.id)
             THEN [ui EXCEPT !.selectedPlaces = Append(@, place)]
             ELSE [ui EXCEPT !.selectedPlaces = Unselect(@, place.id)]
    /\ UNCHANGED <<places, startPoint, threshold, profile, pc, optimizedOrder,
                   routePromises, fetchCount, outOfOrder, result,
                   lookup, bfs, dfs, seq>>

\* the click handler of the Generate button, enabled with 2 or more places
GenerateClick ==
    /\ ui.pc = "page" /\ Len(ui.selectedPlaces) >= 2
    /\ Len(ui.requests) < MaxInFlight
    /\ ui' = StartRequest(ui)
    /\ UNCHANGED <<places, startPoint, threshold, profile, pc, optimizedOrder,
                   routePromises, fetchCount, outOfOrder, result,
                   lookup, bfs, dfs, seq>>

\* the click handler of a travel mode button: the mode is stored and the
\* route generated again if one exists and 2 or more places are selected
ModeClick(modeKey) ==
    /\ ui.pc = "page" /\ modeKey \in ClickedModeKeys
    /\ Len(ui.requests) < MaxInFlight
    /\ LET page == [ui EXCEPT !.currentTravelModeKey = modeKey]
       IN ui' = IF page.optimizedRoute # Null /\ Len(page.selectedPlaces) >= 2
                THEN StartRequest(page)
                ELSE page
    /\ UNCHANGED <<places, startPoint, threshold, profile, pc, optimizedOrder,
                   routePromises, fetchCount, outOfOrder, result,
                   lookup, bfs, dfs, seq>>

\* the lookups of the k-th generateRoute call in flight are done: the call
\* resumes, stores its route and defers renderRoute and displayResults
RequestCompletes(k) ==
    /\ ui.pc = "page" /\ k \in 1..Len(ui.requests)
    /\ ui.timers < MaxInFlight
    /\ ui' = [ui EXCEPT
                !.optimizedRoute = ui.requests[k],
                !.requests = SubSeq(@, 1, k - 1) \o SubSeq(@, k + 1, Len(@)),
                !.timers = @ + 1]
    /\ UNCHANGED <<places, startPoint, threshold, profile, pc, optimizedOrder,
                   routePromises, fetchCount, outOfOrder, result,
                   lookup, bfs, dfs, seq>>

\* a deferred render runs: renderRoute(); displayResults()
TimerFires ==
    /\ ui.pc = "page" /\ ui.timers > 0
    /\ ui' = [ui EXCEPT !.timers = @ - 1, !.render = Rendered(ui)]
    /\ UNCHANGED <<places, startPoint, threshold, profile, pc, optimizedOrder,
                   routePromises, fetchCount, outOfOrder, result,
                   lookup, bfs, dfs, seq>>

NextPage ==
    \/ \E city \in Cities : CityChange(city)
    \/ \E city \in Cities : \E place \in CityPlaces(city) : HandlePlaceSelection(place)
    \/ GenerateClick
    \/ \E modeKey \in ClickedModeKeys : ModeClick(modeKey)
    \/ \E k \in 1..MaxInFlight : RequestCompletes(k)
    \/ TimerFires

SpecPage == InitPage /\ [][NextPage]_vars

(* ------------------------------ properties ----------------------------- *)
N == Len(places)
Ordered == pc # "idle"
Done == pc = "done"
Order == optimizedOrder.order
Segments == result.routeSegments
LookupFailed(k) == routePromises[k].value.route = Null

\* haversine distance between places i and j, and from the start point to i
Hav(i, j) == haversineDistance(At(places, i).coordinates, At(places, j).coordinates)
HavStart(i) == haversineDistance(startPoint, At(places, i).coordinates)
\* the places not yet in the order when its k-th entry is chosen
UnvisitedAt(k) == (0..(N - 1)) \ {Order[j] : j \in 1..(k - 1)}

RECURSIVE SumOver(_, _)
SumOver(f, n) == IF n = 0 THEN 0 ELSE f[n] + SumOver(f, n - 1)

\* C1: the order returned by fastHeuristicOrdering is a permutation of
\* 0..n-1: length n, every index present, none twice (n >= 0, start point
\* given or absent).
C1_OrderIsPermutation ==
    Ordered =>
        /\ Len(Order) = N
        /\ \A i \in 0..(N - 1) : Cardinality({k \in 1..Len(Order) : Order[k] = i}) = 1

C1_Witness ==
    /\ Ordered
    /\ N >= 3
    /\ startPoint # Null
    /\ Order[1] # 0
    /\ Order[2] > Order[3]

\* C2: every entry of the order after the first is an unvisited place at
\* minimum haversine distance from the previous entry, and among the
\* unvisited places at that minimum it is the one with the lowest index (so
\* the order is determined by the inputs).
C2_NearestLowestIndex ==
    Ordered =>
        \A k \in 2..Len(Order) :
            LET cur == Order[k - 1]
                rem == UnvisitedAt(k)
            IN /\ Order[k] \in rem
               /\ \A r \in rem : Hav(cur, Order[k]) <= Hav(cur, r)
               /\ \A r \in rem : Hav(cur, r) = Hav(cur, Order[k]) => Order[k] <= r

C2_Witness ==
    /\ Ordered
    /\ N >= 3
    /\ \E r \in UnvisitedAt(2) :
          /\ r # Order[2]
          /\ Hav(Order[1], r) = Hav(Order[1], Order[2])
          /\ Hav(Order[1], r) > 0

\* C3: with a start point and at least 2 places, the first entry of the
\* order is the place at minimum haversine distance from the start point
\* (lowest index on ties), and startIndex equals that first entry.
C3_FirstIsNearestToStart ==
    (Ordered /\ startPoint # Null /\ N >= 2) =>
        /\ \A i \in 0..(N - 1) : HavStart(Order[1]) <= HavStart(i)
        /\ \A i \in 0..(N - 1) : HavStart(i) = HavStart(Order[1]) => Order[1] <= i
        /\ optimizedOrder.startIndex = Order[1]

C3_Witness ==
    /\ Ordered /\ startPoint # Null /\ N >= 3
    /\ Order[1] # 0
    /\ \E i \in 0..(N - 1) : i # Order[1] /\ HavStart(i) = HavStart(Order[1])

\* C4 as stated: a startIndex is recorded only with a start point and at
\* least 2 places; a single-place list gives order [0] with no start index;
\* 2 or more places without a start point give an order beginning with 0
\* and no startIndex.
C4_StartIndexOnlyWithStart ==
    Ordered =>
        /\ optimizedOrder.startIndex # NullNum => (startPoint # Null /\ N >= 2)
        /\ N = 1 => (Order = <<0>> /\ optimizedOrder.startIndex = NullNum)
        /\ (N >= 2 /\ startPoint = Null) =>
              (Order[1] = 0 /\ optimizedOrder.startIndex = NullNum)

\* C4 amended: startIndex is null only for an empty list; a single-place
\* list gives order [0] with startIndex 0; 2 or more places without a start
\* point give an order beginning with 0 and startIndex 0.
C4_StartIndexIsFirstOfOrder ==
    Ordered =>
        /\ optimizedOrder.startIndex = NullNum <=> N = 0
        /\ N = 1 => (Order = <<0>> /\ optimizedOrder.startIndex = 0)
        /\ (N >= 2 /\ startPoint = Null) =>
              (Order[1] = 0 /\ optimizedOrder.startIndex = 0)

C4_Witness ==
    /\ Ordered /\ N >= 2 /\ startPoint = Null
    /\ optimizedOrder.startIndex = 0

\* C5: for an order of n >= 1 places the result has n-1 segments without a
\* start point and n segments with one (the first being the start leg),
\* whatever lookups failed.
C5_SegmentCount ==
    (Done /\ N >= 1) =>
        /\ Len(Segments) = IF startPoint = Null THEN N - 1 ELSE N
        /\ startPoint # Null => Segments[1].from = FromStart
        /\ startPoint = Null => \A k \in 1..Len(Segments) : Segments[k].from # FromStart

C5_Witness ==
    /\ Done /\ N >= 3 /\ startPoint # Null
    /\ Len(Segments) = N
    /\ \E k \in 1..Len(routePromises) : LookupFailed(k)
    /\ \E k \in 1..Len(routePromises) : ~LookupFailed(k)

\* C6: whatever the order in which the lookups completed, the segments are
\* in leg-definition order: after the optional ('start', order[0]) segment,
\* the k-th segment goes from order[k] to order[k+1].
C6_SegmentsFollowOrder ==
    Done =>
        LET s == IF startPoint # Null /\ Len(Order) > 0 THEN 1 ELSE 0
        IN /\ s = 1 => (Segments[1].from = FromStart /\ Segments[1].to = Order[1])
           /\ \A k \in 1..(Len(Order) - 1) :
                 /\ s + k <= Len(Segments)
                 /\ Segments[s + k].from = Order[k]
                 /\ Segments[s + k].to = Order[k + 1]

C6_Witness ==
    /\ Done /\ outOfOrder
    /\ Len(Segments) >= 3
    /\ LookupFailed(1) /\ ~LookupFailed(2) /\ LookupFailed(3)

\* C7: totalDistance of the result equals the sum of the distance fields
\* of the returned segments.
C7_TotalDistanceIsSum ==
    Done =>
        result.totalDistance =
            SumOver([k \in 1..Len(Segments) |-> Segments[k].distance], Len(Segments))

C7_Witness ==
    /\ Done /\ Len(Segments) >= 2
    /\ \E k \in 1..Len(Segments) : LookupFailed(k) /\ Segments[k].distance > 0
    /\ \E k \in 1..Len(Segments) : ~LookupFailed(k)

\* C8: totalDuration is the sum of the durations of exactly the legs whose
\* lookup succeeded; a leg that fell back adds its haversine distance to
\* totalDistance and nothing to totalDuration.
C8_TotalDurationOverSucceeded ==
    Done =>
        LET L == Len(routePromises)
            route(k) == routePromises[k].value.route
        IN /\ result.totalDuration =
                SumOver([k \in 1..L |->
                           IF LookupFailed(k) THEN 0 ELSE route(k).duration], L)
           /\ result.totalDistance =
                SumOver([k \in 1..L |->
                           IF LookupFailed(k)
                           THEN haversineDistance(routePromises[k].a, routePromises[k].b)
                           ELSE route(k).distance], L)

C8_Witness ==
    /\ Done /\ Len(routePromises) >= 3
    /\ result.totalDuration > 0
    /\ \E k \in 1..Len(routePromises) :
          LookupFailed(k) /\ haversineDistance(routePromises[k].a, routePromises[k].b) > 0

\* C9: whatever lookups fail, all of them included, no lookup promise is
\* ever rejected and heuristicOptimizedRoute never raises; while it awaits,
\* a step is always possible (a pending lookup can settle, and once none is
\* pending Promise.all is fulfilled and the call resumes), and the result
\* it returns has one segment per defined leg, the failed legs carrying
\* their fallback distance.
CompleteResult ==
    /\ Len(Segments) = Len(routePromises)
    /\ \A k \in 1..Len(routePromises) :
          /\ Segments[k].from = routePromises[k].from
          /\ Segments[k].to = routePromises[k].to
          /\ LookupFailed(k) =>
                Segments[k].distance =
                    haversineDistance(routePromises[k].a, routePromises[k].b)
C9_CompletesOnAnyFailure ==
    /\ pc # "raised"
    /\ pc = "awaiting" =>
          /\ ~AnyRejected
          /\ AllFulfilled \/ \E k \in 1..Len(routePromises) :
                                routePromises[k].state = "pending"
    /\ Done => CompleteResult

C9_Witness ==
    /\ Done /\ Len(routePromises) >= 3
    /\ Len(Segments) = Len(routePromises)
    /\ \A k \in 1..Len(routePromises) : LookupFailed(k)

\* C10: the segment of a leg whose lookup failed has the haversine distance
\* between the leg's endpoints (the start point when from is 'start') and
\* no duration and no geometry.
C10_FallbackSegment ==
    Done =>
        \A k \in 1..Len(Segments) :
            LookupFailed(k) =>
                LET seg == Segments[k]
                    fromCoords == IF seg.from = FromStart THEN startPoint
                                  ELSE At(places, seg.from).coordinates
                IN /\ seg.distance =
                        haversineDistance(fromCoords, At(places, seg.to).coordinates)
                   /\ seg.duration = NullNum
                   /\ seg.geometry = Null

C10_Witness ==
    /\ Done /\ Len(Segments) >= 2
    /\ Segments[1].from = FromStart /\ LookupFailed(1) /\ Segments[1].distance > 0
    /\ LookupFailed(2) /\ Segments[2].distance > 0

\* C11: fetchRealRoutesInParallel delivers its result only after every
\* lookup it issued has settled: while any lookup is in flight the call is
\* still awaiting and no segment list or totals exist.
C11_NoResultWhileInFlight ==
    /\ (\E k \in 1..Len(routePromises) : routePromises[k].state = "pending") =>
          (pc = "awaiting" /\ result = Null)
    /\ result # Null => (Done /\ AllFulfilled)

C11_Witness ==
    /\ pc = "awaiting" /\ result = Null
    /\ Len(routePromises) >= 3
    /\ routePromises[1].state = "pending"
    /\ routePromises[2].state = "fulfilled"
    /\ routePromises[3].state = "fulfilled"

\* the positions of the segments above the threshold, and the position of
\* the i-th of them
FarPositions == {k \in 1..Len(Segments) : Segments[k].distance > threshold}
NthFar(i) ==
    CHOOSE k \in FarPositions : Cardinality({j \in FarPositions : j <= k}) = i

\* C13: farSegments is exactly the subsequence, in leg order, of the
\* segments whose distance is strictly greater than the threshold; a segment
\* at the threshold is not in it.
C13_FarSegmentsStrictlyAbove ==
    Done =>
        /\ Len(result.farSegments) = Cardinality(FarPositions)
        /\ \A i \in 1..Len(result.farSegments) :
              /\ result.farSegments[i].from = Segments[NthFar(i)].from
              /\ result.farSegments[i].to = Segments[NthFar(i)].to
              /\ result.farSegments[i].distance = Segments[NthFar(i)].distance
              /\ result.farSegments[i].duration = Segments[NthFar(i)].duration
              /\ result.farSegments[i].distance > threshold

C13_Witness ==
    /\ Done /\ Len(Segments) >= 3
    /\ Segments[1].distance > threshold
    /\ Segments[2].distance = threshold
    /\ Segments[3].distance > threshold
    /\ Len(result.farSegments) = 2

\* C20 as stated: for a one-place list, with or without a start point, the
\* result has an order of length 1, no segments, total distance 0 and no
\* far segments.
C20_SinglePlaceTrivial ==
    (Done /\ N = 1) =>
        /\ Len(result.order) = 1
        /\ Segments = <<>>
        /\ result.totalDistance = 0
        /\ result.farSegments = <<>>

\* C20 amended: for a one-place list without a start point the result has
\* an order of length 1, no segments, total distance 0 and no far segments;
\* with a start point it has an order of length 1 and exactly one segment,
\* the leg from the start point to the place, whose distance is the total
\* distance and which is a far segment exactly when above the threshold.
C20_SinglePlaceStartLegOnly ==
    (Done /\ N = 1) =>
        /\ result.order = <<0>>
        /\ startPoint = Null =>
              /\ Segments = <<>>
              /\ result.totalDistance = 0
              /\ result.farSegments = <<>>
        /\ startPoint # Null =>
              /\ Len(Segments) = 1
              /\ Segments[1].from = FromStart /\ Segments[1].to = 0
              /\ result.totalDistance = Segments[1].distance
              /\ Len(result.farSegments) =
                    IF Segments[1].distance > threshold THEN 1 ELSE 0

C20_Witness ==
    /\ Done /\ N = 1 /\ startPoint # Null
    /\ Len(Segments) = 1
    /\ result.totalDistance > threshold
    /\ Len(result.farSegments) = 1

\* a response that carries a usable first route
WellFormed(response) ==
    /\ response.transport = "ok" /\ response.ok /\ response.code = "Ok"
    /\ response.hasRoutes /\ Len(response.routes) > 0
    /\ response.routes[1].geometry # Null

\* C12: getRealRoute never raises: a transport error, a non-success HTTP
\* response, a code other than 'Ok', a missing or empty routes list, or a
\* route without geometry each make it return null, and only a well-formed
\* successful response returns a route (distance in km, duration, geometry,
\* coordinates).
C12_LookupNeverRaises ==
    /\ lookup.pc # "raised"
    /\ lookup.pc = "returned" =>
          IF WellFormed(lookup.response)
          THEN /\ lookup.value # Null
               /\ lookup.value.distance * 1000 = lookup.response.routes[1].distance
               /\ lookup.value.duration = lookup.response.routes[1].duration
               /\ lookup.value.geometry = lookup.response.routes[1].geometry
               /\ Len(lookup.value.coordinates) = 2
               /\ lookup.value.coordinates[1] = lookup.point1
               /\ lookup.value.coordinates[2] = lookup.point2
          ELSE lookup.value = Null

C12_Witness ==
    /\ lookup.pc = "returned"
    /\ lookup.response.code = "Ok"
    /\ Len(lookup.response.routes) = 1
    /\ lookup.response.routes[1].geometry = Null
    /\ lookup.value = Null
    /\ lookup.profile = "foot"

\* bfsReachability: the search has chosen its root; it has returned
Rooted == bfs.pc \in {"checkStart", "neighbour", "done"}
Returned == bfs.pc = "done"
Root == bfs.startIndex
Reachable == {bfs.reachable[k] : k \in 1..Len(bfs.reachable)}
Pushed == {bfs.pushed[k] : k \in 1..Len(bfs.pushed)}
Dequeued == {bfs.dequeued[k] : k \in 1..Len(bfs.dequeued)}
NoDuplicates(list) == \A i, j \in 1..Len(list) : list[i] = list[j] => i = j

\* the distance a lookup stands for: the reported road distance, or the
\* haversine distance when the lookup failed
HopKm(h) ==
    IF h.km = NullNum THEN Hav(h.from, h.to) ELSE h.km
CheckKm(c) ==
    IF c.km = NullNum THEN HavStart(c.place) ELSE c.km

\* C14 as stated: every returned place is within maxDistance of the search
\* root, the place chosen as nearest to the start point.
C14_WithinMaxOfRoot ==
    Returned =>
        \A i \in Reachable :
            \/ i = Root
            \/ \E h \in bfs.hops :
                  h.from = Root /\ h.to = i /\ HopKm(h) <= bfs.maxDistance

\* C14 amended: every returned place had, when it was taken from the queue,
\* a distance from the START POINT (road distance, or haversine distance
\* when that lookup failed) of at most maxDistance; its distance from the
\* root is not checked.
C14_WithinMaxOfStartPoint ==
    \A i \in Reachable :
        \E c \in bfs.checks : c.place = i /\ CheckKm(c) <= bfs.maxDistance

C14_Witness ==
    /\ Returned
    /\ \E i \in Reachable :
          /\ i # Root
          /\ \E h \in bfs.hops :
                h.from = Root /\ h.to = i /\ h.km = NullNum
                  /\ HopKm(h) > bfs.maxDistance
          /\ \E c \in bfs.checks : c.place = i /\ CheckKm(c) <= bfs.maxDistance

\* the most lookups a search over n places can issue: n to find the root,
\* one start check per place, one hop lookup per ordered pair of places
MaxLookups(n) == n + n + n * (n - 1)

\* C15: every place is put in the queue at most once and taken from it at
\* most once; for a non-empty place list the search never raises, every
\* suspended search can go on, the number of lookups is bounded, and the
\* search has returned exactly when the queue is empty with every queued
\* place taken.
C15_EnqueuedOnceAndReturns ==
    /\ NoDuplicates(bfs.pushed) /\ NoDuplicates(bfs.dequeued)
    /\ NoDuplicates(bfs.queue)
    /\ Len(places) > 0 =>
          /\ bfs.pc # "raised"
          /\ fetchCount <= MaxLookups(Len(places))
          /\ bfs.pc = "findStart" => bfs.idx < Len(places)
          /\ bfs.pc = "checkStart" => bfs.currentIdx < Len(places)
          /\ bfs.pc = "neighbour" =>
                bfs.idx < Len(places) /\ bfs.currentIdx < Len(places)
          /\ Rooted =>
                /\ Pushed \subseteq bfs.visited
                /\ {bfs.queue[k] : k \in 1..Len(bfs.queue)} = Pushed \ Dequeued
          /\ Returned => (bfs.queue = <<>> /\ Dequeued = Pushed)

C15_Witness ==
    /\ Returned
    /\ Len(places) = MaxPlaces
    /\ Len(bfs.pushed) = MaxPlaces
    /\ \E h \in bfs.hops : h.from # Root /\ HopKm(h) <= bfs.maxDistance
    /\ fetchCount = 2 * Len(places) + Cardinality(bfs.hops)

\* C16: a place farther than maxDistance from every place the search took
\* from the queue is never in the returned list: every returned place other
\* than the root was within maxDistance of a dequeued place.
C16_FarFromAllDequeuedNeverReturned ==
    \A i \in Reachable :
        \/ i = Root
        \/ \E h \in bfs.hops :
              h.to = i /\ h.from \in Dequeued /\ HopKm(h) <= bfs.maxDistance

C16_Witness ==
    /\ Returned
    /\ Cardinality(Dequeued) >= 2
    /\ \E i \in 0..(Len(places) - 1) :
          /\ i \notin Reachable /\ i \notin Pushed
          /\ HavStart(i) = 0
          /\ \A d \in Dequeued :
                \E h \in bfs.hops : h.from = d /\ h.to = i
                                      /\ HopKm(h) > bfs.maxDistance

\* C17: the result is not the closure of within-budget hops: it is exactly
\* the queued places whose own distance from the start point at dequeue
\* time was at most maxDistance, each once, in dequeue order; a place
\* queued through a short hop whose own check fails is left out.
C17_ExactlyQueuedPlacesPassingCheck ==
    Returned =>
        /\ Reachable =
              {i \in Pushed : \E c \in bfs.checks :
                                 c.place = i /\ CheckKm(c) <= bfs.maxDistance}
        /\ NoDuplicates(bfs.reachable)
        /\ bfs.reachable =
              SelectSeq(bfs.dequeued, LAMBDA i : i \in Reachable)

C17_Witness ==
    /\ Returned
    /\ \E i \in Pushed :
          /\ i # Root /\ i \notin Reachable
          /\ \E h \in bfs.hops : h.to = i /\ HopKm(h) <= bfs.maxDistance
          /\ \E j \in Reachable : j # Root /\ j # i

ThroughPage == ui.pc # "idle"
ThroughCore == ui.pc = "idle" /\ pc # "idle"

\* C19 as stated: a request with fewer than 2 places is rejected with a
\* validation error and issues no lookup, through generateRoute and
\* through heuristicOptimizedRoute alike.
C19_FewerThanTwoRejectedEverywhere ==
    (Len(places) < 2 /\ (ThroughPage \/ ThroughCore)) =>
        /\ fetchCount = 0
        /\ result = Null
        /\ ui.pc = "rejected" \/ pc = "raised"

\* C19 amended: generateRoute rejects a request with fewer than 2 selected
\* places with an alert and calls nothing; heuristicOptimizedRoute itself
\* does not validate: with fewer than 2 places it raises no error, issues
\* one lookup when there is one place and a start point and none otherwise,
\* and returns a result whose order holds every place.
C19_OnlyPageRejectsFewerThanTwo ==
    Len(places) < 2 =>
        /\ ThroughPage =>
              /\ ui.pc = "rejected"
              /\ ui.alerts =
                   <<"Please select at least 2 tourist places to generate a route.">>
              /\ fetchCount = 0 /\ pc = "idle" /\ result = Null
        /\ ThroughCore =>
              /\ ui.alerts = <<>>
              /\ pc \in {"awaiting", "done"}
              /\ fetchCount = IF Len(places) = 1 /\ startPoint # Null THEN 1 ELSE 0
              /\ Done => Len(result.order) = Len(places)

C19_Witness ==
    /\ Len(places) = 1 /\ ThroughCore /\ Done
    /\ fetchCount = 1
    /\ Len(result.routeSegments) = 1
    /\ ui.alerts = <<>>

\* the legs of one call: the start leg if a start point is given and there
\* is a place, and one leg per consecutive pair of the order
Legs == (IF startPoint # Null /\ N > 0 THEN 1 ELSE 0) + (IF N > 1 THEN N - 1 ELSE 0)

\* C22: fetchRealRoutesInParallel issues exactly one lookup per leg and
\* repeats none after a failure: from the moment the lookups are issued to
\* the return, the number of lookups issued is the number of legs, whatever
\* the outcomes.
C22_OneLookupPerLeg ==
    /\ pc = "idle" => fetchCount = 0
    /\ Ordered => (fetchCount = Legs /\ Len(routePromises) = Legs)

C22_Witness ==
    /\ Done /\ N = MaxPlaces /\ startPoint # Null
    /\ \A k \in 1..Len(routePromises) : LookupFailed(k)
    /\ fetchCount = MaxPlaces

\* the dequeued place whose neighbour loop queued place p
Parent(p) ==
    (CHOOSE h \in bfs.hops : h.to = p /\ HopKm(h) <= bfs.maxDistance).from

\* C23: bfsReachability takes places from the queue in the order they were
\* put in, the root first; the neighbours of one dequeued place are queued
\* in ascending index order; the returned list is in dequeue order.
C23_FifoOrder ==
    Rooted =>
        /\ bfs.pushed = bfs.dequeued \o bfs.queue
        /\ bfs.pushed[1] = Root
        /\ \A i, j \in 2..Len(bfs.pushed) :
              (i < j /\ Parent(bfs.pushed[i]) = Parent(bfs.pushed[j])) =>
                  bfs.pushed[i] < bfs.pushed[j]
        /\ \A i, j \in 2..Len(bfs.pushed) :
              i < j =>
                  \E a, b \in 1..Len(bfs.pushed) :
                      /\ a <= b
                      /\ bfs.pushed[a] = Parent(bfs.pushed[i])
                      /\ bfs.pushed[b] = Parent(bfs.pushed[j])
        /\ bfs.reachable = SelectSeq(bfs.dequeued, LAMBDA i : i \in Reachable)

C23_Witness ==
    /\ Returned
    /\ Len(bfs.pushed) = 3
    /\ Root = 1
    /\ Parent(bfs.pushed[2]) = Root /\ Parent(bfs.pushed[3]) = Root
    /\ bfs.dequeued = <<1, 0, 2>>
    /\ bfs.reachable = <<0, 2>>

\* C30 as stated: bfsReachability called with an empty place list ends
\* without raising and returns an empty list.
C30_EmptyListReturnsEmpty ==
    (Len(places) = 0 /\ bfs.pc # "idle") =>
        (bfs.pc = "done" /\ bfs.reachable = <<>>)

\* dfsRouteExploration: the first call has returned; its paths
Explored == dfs.pc = "done"
Paths == {dfs.result[k] : k \in 1..Len(dfs.result)}
Elements(path) == {path[k] : k \in 1..Len(path)}

\* what every recorded path satisfies in C24: it was recorded at maxDepth
\* or with all places visited, begins with the start index, holds no place
\* twice, and is no longer than maxDepth and the number of places
WellFormedPath(path) ==
    /\ Len(path) = dfs.maxDepth \/ Elements(path) = 0..(N - 1)
    /\ Len(path) >= 1 /\ path[1] = dfs.startIdx
    /\ NoDuplicates(path)
    /\ Elements(path) \subseteq 0..(N - 1)
    /\ Len(path) <= dfs.maxDepth /\ Len(path) <= N

\* C24 as stated: from a fresh visited set and an empty path, every
\* recorded path is well-formed in the sense above.
C24_RecordedPathsWellFormed ==
    Explored => \A path \in Paths : WellFormedPath(path)

\* C24 amended: the same for at least one place and maxDepth >= 1; with no
\* place or with maxDepth = 0 the call returns at once and its one recorded
\* path is the empty path, which does not begin with the start index.
C24_RecordedPathsWellFormedFromDepthOne ==
    Explored =>
        /\ Len(dfs.result) >= 1
        /\ (N >= 1 /\ dfs.maxDepth >= 1) => \A path \in Paths : WellFormedPath(path)
        /\ (N = 0 \/ dfs.maxDepth = 0) => dfs.result = << <<>> >>

C24_Witness ==
    /\ Explored /\ N = 3 /\ dfs.maxDepth = 2 /\ dfs.startIdx = 1
    /\ Paths = {<<1, 0>>, <<1, 2>>}

\* the orderings of all n places that begin with the start index
OrderingsFromStart ==
    {p \in [1..N -> 0..(N - 1)] :
        /\ p[1] = dfs.startIdx
        /\ \A i, j \in 1..N : p[i] = p[j] => i = j}
RECURSIVE Factorial(_)
Factorial(n) == IF n <= 1 THEN 1 ELSE n * Factorial(n - 1)

\* C25: with maxDepth >= n >= 1, from a fresh state, the returned paths are
\* the orderings of all n places that begin with the start index, each
\* exactly once and nothing else: (n-1)! paths.
C25_AllOrderingsFromStart ==
    (Explored /\ N >= 1 /\ dfs.maxDepth >= N) =>
        /\ Paths = OrderingsFromStart
        /\ NoDuplicates(dfs.result)
        /\ Len(dfs.result) = Factorial(N - 1)

C25_Witness ==
    /\ Explored /\ N = 3 /\ dfs.maxDepth = 3 /\ dfs.startIdx = 2
    /\ dfs.result = << <<2, 0, 1>>, <<2, 1, 0>> >>

\* C29 as stated: for n >= 1 places and maxDepth >= 1, from a fresh state,
\* no path is returned more than once.
C29_PathsPairwiseDistinct ==
    (Explored /\ N >= 1 /\ dfs.maxDepth >= 1) => NoDuplicates(dfs.result)

\* the request goes to the parallel optimizer; to the sequential one
Parallel == pc # "off"
Sequential == seq.pc # "off"
SeqDone == seq.pc = "done"

\* C21 as stated: in both optimizers no lookup has been issued as long as
\* the visiting order is incomplete.
C21_OrderingIssuesNoLookup ==
    /\ (Parallel /\ fetchCount > 0) =>
          (optimizedOrder # Null /\ Len(Order) = N)
    /\ (Sequential /\ fetchCount > 0) => Len(seq.order) = N

\* the lookups heuristicNearestNeighbor makes for n >= 2 places: one per
\* place to find the first when a start point is given, and at every step
\* one per place still unvisited
SeqLookups == (IF startPoint # Null THEN N ELSE 0) + (N * (N - 1)) \div 2

\* C21 amended: fastHeuristicOrdering issues no lookup and has no suspension
\* point: the order is complete in the step that starts it and lookups
\* exist only with the complete order.  heuristicNearestNeighbor orders by
\* awaited lookups: while it waits for one the order is incomplete, and for
\* n >= 2 places its complete order has cost SeqLookups lookups.
C21_OnlyFastOrderingIssuesNoLookup ==
    /\ Parallel =>
          /\ (pc = "idle") = (optimizedOrder = Null)
          /\ pc = "idle" => fetchCount = 0
          /\ optimizedOrder # Null => Len(Order) = N
    /\ Sequential =>
          /\ seq.pc \in {"findStart", "scan"} =>
                (Len(seq.order) < N /\ fetchCount > 0)
          /\ seq.pc = "scan" =>
                fetchCount > (IF startPoint # Null THEN N ELSE 0)
          /\ (SeqDone /\ N >= 2) =>
                (Len(seq.order) = N /\ fetchCount = SeqLookups)
          /\ (SeqDone /\ N < 2) => fetchCount = 0

C21_Witness ==
    /\ Sequential /\ seq.pc = "scan"
    /\ N = 3 /\ Len(seq.order) = 2
    /\ fetchCount = SeqLookups

\* C26 as stated: in heuristicNearestNeighbor a leg whose lookup failed is
\* in routeSegments with the haversine distance and no duration, so for
\* n >= 2 places routeSegments has n-1 entries, one per consecutive pair of
\* the order, whose distances sum to totalDistance.
C26_SequentialFallbackSegment ==
    (SeqDone /\ N >= 2) =>
        /\ Len(seq.routeSegments) = N - 1
        /\ \A k \in 1..Len(seq.routeSegments) :
              /\ seq.routeSegments[k].from = seq.order[k]
              /\ seq.routeSegments[k].to = seq.order[k + 1]
        /\ seq.totalDistance =
              SumOver([k \in 1..Len(seq.routeSegments) |->
                          seq.routeSegments[k].distance],
                      Len(seq.routeSegments))

\* C27 as stated: once no generateRoute call is in flight, the stored
\* optimizedRoute is the result of the most recently started request and
\* its profile is that of the travel mode selected now.
C27_LatestRequestWins ==
    (ui.pc = "page" /\ ui.requests = <<>> /\ ui.optimizedRoute # Null) =>
        /\ ui.optimizedRoute = ui.latest
        /\ ui.optimizedRoute.profile = getOSRMProfile(ui.currentTravelModeKey)

\* C28 as stated: whenever renderRoute and displayResults run, every index
\* of optimizedRoute.order is an index of the current selectedPlaces and
\* denotes the place it denoted when the order was computed.
C28_RenderedIndicesDenoteSamePlaces ==
    (ui.pc = "page" /\ ui.render # Null) =>
        \A k \in 1..Len(ui.render.order) :
            LET i == ui.render.order[k]
            IN /\ i < Len(ui.render.selectedPlaces)
               /\ At(ui.render.selectedPlaces, i).id = At(ui.render.ordered, i).id

====
